---- MODULE Spec2Model ----
(***************************************************************************)
(* Srader dashboard (src/src/main.py): the synthetic sensor feed of        *)
(* SraderDashboard.simulate_data, the person profile of                    *)
(* simulate_person_obstacle, the hand-off of the five sensor rows to the   *)
(* ObstacleColumnWidgets, the status cascade, and the two threshold        *)
(* classifiers (distance colour, tilt bubble colour).                      *)
(*                                                                         *)
(* Numbers.  Distances are millimetres.  Angles are fixed-point with       *)
(* AngleScale units per degree.  A shoulder width is in tenths of a pixel. *)
(* math.exp is the table ExpE5 (five decimals); for every draw enumerated  *)
(* here the resulting int(dist) equals the one Python computes.            *)
(*                                                                         *)
(* Objects.  Python lists are objects of `heap`; a list-valued attribute   *)
(* holds an object id.  Ids 0..4 are the rows of _last_sim_distances, ids  *)
(* 5..9 the [4000]*8 lists the column widgets are constructed with.        *)
(***************************************************************************)
EXTENDS Integers, FiniteSets, Sequences, TLC

VARIABLES
    last_sim_angle,   \* SraderDashboard._last_sim_angle
    angle_change,     \* simulate_data local: the step drawn in this tick
    indicator_angle,  \* TiltIndicatorWidget._angle
    heap,             \* object id -> list of 8 distances
    widget_ref,       \* ObstacleColumnWidget.distances of widget i: an object id
    status,           \* the status label: "INIT", "OK", "TILT", "OBSTACLE"
    pc,               \* position inside simulate_data
    tick,             \* completed runs of simulate_data
    before_walk,      \* observation: the field when this tick's loop began
    after_walk,       \* observation: the field when this tick's loop ended
    person,           \* simulate_data locals of the person event of this tick
    handed,           \* observation: what each widget was given by update_data
    call,             \* a direct call of simulate_person_obstacle and its outcome
    probe,            \* arguments handed to the classifiers
    bands             \* what the classifiers returned

vars == << last_sim_angle, angle_change, indicator_angle, heap, widget_ref,
           status, pc, tick, before_walk, after_walk, person, handed, call,
           probe, bands >>

---------------------------------------------------------------------------
\* Program constants

TILT_ANGLE_NORMAL == 5
TILT_ANGLE_WARNING == 15
OBSTACLE_DIST_CRITICAL == 300
OBSTACLE_DIST_WARNING == 600
OBSTACLE_DIST_CAUTION == 1000
OBSTACLE_DIST_NORMAL == 2000

NumSensors == 5
NumPixels == 8
MaxDistance == 4000
MinDistance == 50
AngleLimit == 30
AngleScale == 1000
ExpScale == 100000

Sensors == 0 .. (NumSensors - 1)
Pixels == 0 .. (NumPixels - 1)

\* Bounds of the exploration
MaxTicks == 2

Abs(x) == IF x < 0 THEN -x ELSE x
MinOf(S) == CHOOSE m \in S : \A x \in S : m <= x
MaxOf(S) == CHOOSE m \in S : \A x \in S : m >= x

---------------------------------------------------------------------------
\* Threshold classifiers

HeatmapColor(distance_mm) ==
    IF distance_mm < OBSTACLE_DIST_CRITICAL THEN "CRITICAL"
    ELSE IF distance_mm < OBSTACLE_DIST_WARNING THEN "WARNING"
    ELSE IF distance_mm < OBSTACLE_DIST_CAUTION THEN "CAUTION"
    ELSE IF distance_mm < OBSTACLE_DIST_NORMAL THEN "NORMAL"
    ELSE "SAFE"

ColumnColorOffByOne(distance_mm) ==
    IF distance_mm <= OBSTACLE_DIST_CRITICAL THEN "CRITICAL"
    ELSE IF distance_mm < OBSTACLE_DIST_WARNING THEN "WARNING"
    ELSE IF distance_mm < OBSTACLE_DIST_CAUTION THEN "CAUTION"
    ELSE IF distance_mm < OBSTACLE_DIST_NORMAL THEN "NORMAL"
    ELSE "SAFE"

ColumnColor(distance_mm) ==
    IF distance_mm < OBSTACLE_DIST_CRITICAL THEN "CRITICAL"
    ELSE IF distance_mm < OBSTACLE_DIST_WARNING THEN "WARNING"
    ELSE IF distance_mm < OBSTACLE_DIST_CAUTION THEN "CAUTION"
    ELSE IF distance_mm < OBSTACLE_DIST_NORMAL THEN "NORMAL"
    ELSE "SAFE"

BubbleColorInclusive(angle) ==
    IF Abs(angle) <= TILT_ANGLE_NORMAL * AngleScale THEN "NORMAL"
    ELSE IF Abs(angle) <= TILT_ANGLE_WARNING * AngleScale THEN "CAUTION"
    ELSE "CRITICAL"

BubbleColor(angle) ==
    IF Abs(angle) < TILT_ANGLE_NORMAL * AngleScale THEN "NORMAL"
    ELSE IF Abs(angle) < TILT_ANGLE_WARNING * AngleScale THEN "CAUTION"
    ELSE "CRITICAL"

---------------------------------------------------------------------------
\* Status cascade of simulate_data

StatusTiltFirst(min_dist, sim_angle) ==
    IF Abs(sim_angle) > TILT_ANGLE_WARNING * AngleScale THEN "TILT"
    ELSE IF min_dist < OBSTACLE_DIST_CRITICAL THEN "OBSTACLE"
    ELSE "OK"

SystemStatus(min_dist, sim_angle) ==
    IF min_dist < OBSTACLE_DIST_CRITICAL THEN "OBSTACLE"
    ELSE IF Abs(sim_angle) > TILT_ANGLE_WARNING * AngleScale THEN "TILT"
    ELSE "OK"

---------------------------------------------------------------------------
\* Tilt step of simulate_data

TiltNoReflect(angle, change) == angle + change

TiltNext(angle, change) ==
    LET stepped == angle + change
    IN  IF ~(-AngleLimit * AngleScale < stepped /\ stepped < AngleLimit * AngleScale)
        THEN stepped - change * 2
        ELSE stepped

---------------------------------------------------------------------------
\* The per-sensor loop of simulate_data

ClampNoFloor(x) == IF x > MaxDistance THEN MaxDistance ELSE x

Clamp(x) == MaxOf({MinDistance, MinOf({MaxDistance, x})})

StepRow(row, dist_change) ==
    [j \in Pixels |-> Clamp(row[j] + dist_change[j])]

\* random.randint(a, b) with the draw u: 0 the low end, 1 the high end
RandInt(a, b, u) == IF u = 0 THEN a ELSE b

SpikeRowPair(row, spike) ==
    IF ~spike.hit THEN row
    ELSE [j \in Pixels |->
            IF j \in {spike.pixel_idx, (spike.pixel_idx + 1) % NumPixels}
            THEN (IF row[j] > OBSTACLE_DIST_CAUTION
                  THEN RandInt(50, 299, spike.u) ELSE RandInt(1500, 4000, spike.u))
            ELSE row[j]]

SpikeRow(row, spike) ==
    IF ~spike.hit THEN row
    ELSE [row EXCEPT ![spike.pixel_idx] =
            IF row[spike.pixel_idx] > 1000
            THEN RandInt(50, 299, spike.u)
            ELSE RandInt(1500, 4000, spike.u)]

WalkRow(row, dist_change, spike) == SpikeRow(StepRow(row, dist_change), spike)

---------------------------------------------------------------------------
\* simulate_person_obstacle

\* math.exp(-((j - 3.5) ** 2) / (2 * shoulder_width ** 2)) to five decimals,
\* by ksq = (2j - 7)^2 and wsq = (10 * shoulder_width)^2
ExpE5(ksq, wsq) ==
    CASE wsq = 225 -> (CASE ksq = 1 -> 94596 [] ksq = 9 -> 60653
                         [] ksq = 25 -> 24935 [] ksq = 49 -> 6573)
      [] wsq = 400 -> (CASE ksq = 1 -> 96923 [] ksq = 9 -> 75484
                         [] ksq = 25 -> 45783 [] ksq = 49 -> 21627)
      [] wsq = 625 -> (CASE ksq = 1 -> 98020 [] ksq = 9 -> 83527
                         [] ksq = 25 -> 60653 [] ksq = 49 -> 37531)

PersonDistDip(j, distance_to_person, shoulder_width) ==
    distance_to_person
      - ((4000 - distance_to_person)
           * (ExpScale
                - ExpE5((2 * j - 7) * (2 * j - 7), shoulder_width * shoulder_width)))
        \div ExpScale

\* int(dist) of pixel j; dist is positive, so truncation is the floor
PersonDist(j, distance_to_person, shoulder_width) ==
    distance_to_person
      + ((4000 - distance_to_person)
           * (ExpScale
                - ExpE5((2 * j - 7) * (2 * j - 7), shoulder_width * shoulder_width)))
        \div ExpScale

PersonProfile(distance_to_person, shoulder_width) ==
    [j \in Pixels |-> PersonDist(j, distance_to_person, shoulder_width)]

\* a Python list index: -len..-1 count from the end
PyIndex(k, len) == IF k < 0 THEN k + len ELSE k

\* what a call does before its first write: the division of line 400 comes
\* first, then the subscript of line 402
PersonOutcome(sensor_index, shoulder_width) ==
    IF shoulder_width * shoulder_width = 0 THEN "ZeroDivisionError"
    ELSE IF sensor_index >= NumSensors \/ sensor_index < -NumSensors THEN "IndexError"
    ELSE "returned"

InjectNeighbour(h, sensor_index, distance_to_person, shoulder_width) ==
    [h EXCEPT ![(PyIndex(sensor_index, NumSensors) + 1) % NumSensors] =
        PersonProfile(distance_to_person, shoulder_width)]

\* the heap after a call that returns
simulate_person_obstacle(h, sensor_index, distance_to_person, shoulder_width) ==
    [h EXCEPT ![PyIndex(sensor_index, NumSensors)] =
        PersonProfile(distance_to_person, shoulder_width)]

---------------------------------------------------------------------------
\* State after SraderDashboard.__init__

Field == [i \in Sensors |-> heap[i]]
AllDistances == {heap[i][j] : i \in Sensors, j \in Pixels}

NoPerson == [fired |-> FALSE, target_sensor |-> 0, person_dist |-> 0,
             shoulder_width |-> 0]
NoCall == [outcome |-> "none", sensor_index |-> 0, distance_to_person |-> 0,
           shoulder_width |-> 0, before |-> [i \in Sensors |-> [j \in Pixels |-> 4000]]]
NoProbe == [d1 |-> 0, d2 |-> 0, a |-> 0]
NoBands == [dist_done |-> FALSE, tilt_done |-> FALSE, heat1 |-> "", col1 |-> "",
            heat2 |-> "", col2 |-> "", bubble |-> "", bubble_neg |-> ""]

InitDashboard ==
    /\ last_sim_angle = 0
    /\ angle_change = 0
    /\ indicator_angle = 0
    /\ heap = [o \in 0 .. (2 * NumSensors - 1) |-> [j \in Pixels |-> 4000]]
    /\ widget_ref = [i \in Sensors |-> NumSensors + i]
    /\ status = "INIT"
    /\ pc = "tilt"
    /\ tick = 0
    /\ before_walk = [i \in Sensors |-> [j \in Pixels |-> 4000]]
    /\ after_walk = [i \in Sensors |-> [j \in Pixels |-> 4000]]
    /\ person = NoPerson
    /\ handed = [i \in Sensors |-> [j \in Pixels |-> 4000]]
    /\ call = NoCall

Init ==
    /\ InitDashboard
    /\ probe = NoProbe
    /\ bands = NoBands

---------------------------------------------------------------------------
\* simulate_data, one timer tick, in its four stretches

\* lines 409-425: the tilt step and setAngle
Tilt(steps, max_ticks) ==
    /\ pc = "tilt"
    /\ tick < max_ticks
    /\ \E change \in steps :
          /\ angle_change' = change
          /\ last_sim_angle' = TiltNext(last_sim_angle, change)
    /\ indicator_angle' = last_sim_angle'
    /\ pc' = "walk"
    /\ UNCHANGED << heap, widget_ref, status, tick, before_walk, after_walk,
                    person, handed, call, probe, bands >>

\* lines 428-445: per-pixel step and spike draw, sensor by sensor
Walk(step_draws, spike_draws) ==
    /\ pc = "walk"
    /\ \E dist_change \in step_draws, spike \in spike_draws :
          heap' = [o \in DOMAIN heap |->
                     IF o \in Sensors
                     THEN WalkRow(heap[o], dist_change[o], spike[o])
                     ELSE heap[o]]
    /\ before_walk' = Field
    /\ after_walk' = [i \in Sensors |-> heap'[i]]
    /\ pc' = "person"
    /\ UNCHANGED << last_sim_angle, angle_change, indicator_angle, widget_ref,
                    status, tick, person, handed, call, probe, bands >>

\* lines 447-452: the person event
Person(person_draws) ==
    /\ pc = "person"
    /\ \E draw \in person_draws :
          /\ person' = draw
          /\ heap' = IF draw.fired
                     THEN simulate_person_obstacle(heap, draw.target_sensor,
                                                   draw.person_dist, draw.shoulder_width)
                     ELSE heap
    /\ pc' = "handoff"
    /\ UNCHANGED << last_sim_angle, angle_change, indicator_angle, widget_ref,
                    status, tick, before_walk, after_walk, handed, call, probe, bands >>

\* ObstacleColumnWidget.update_data: keeps the list it is given
update_data(old_ref, new_ref) ==
    IF Cardinality(DOMAIN heap[new_ref]) = 8 THEN new_ref ELSE old_ref

\* lines 454-470: hand-off to the widgets, minimum, status
HandOff ==
    /\ pc = "handoff"
    /\ widget_ref' = [i \in Sensors |-> update_data(widget_ref[i], i)]
    /\ handed' = [i \in Sensors |-> heap[widget_ref'[i]]]
    /\ status' = SystemStatus(MinOf(AllDistances), last_sim_angle)
    /\ tick' = tick + 1
    /\ pc' = "tilt"
    /\ UNCHANGED << last_sim_angle, angle_change, indicator_angle, heap,
                    before_walk, after_walk, person, call, probe, bands >>

---------------------------------------------------------------------------
\* The random draws that are enumerated

\* (random.random() - 0.5) * 4 lies in [-2, 2): half-degree steps
TiltSteps == {k * (AngleScale \div 2) : k \in -4 .. 3}

\* (random.random() - 0.5) * 100 lies in [-50, 50)
Down == [i \in Sensors |-> [j \in Pixels |-> -50]]
Up == [i \in Sensors |-> [j \in Pixels |-> 49]]
Zig == [i \in Sensors |-> [j \in Pixels |-> IF (i + j) % 2 = 0 THEN -50 ELSE 49]]

NoSpike == [hit |-> FALSE, pixel_idx |-> 0, u |-> 0]
SpikeChoices(pixels) ==
    {NoSpike} \cup {[hit |-> TRUE, pixel_idx |-> p, u |-> u] : p \in pixels, u \in {0, 1}}
\* one draw per sensor; only the sensors of `on` may draw below 0.02
SpikeDrawsOn(on, pixels) ==
    {[i \in Sensors |-> IF i \in on THEN g[i] ELSE NoSpike] :
        g \in [on -> SpikeChoices(pixels)]}

PersonDrawsOn(sensors, shapes) ==
    {NoPerson} \cup
    {[fired |-> TRUE, target_sensor |-> s, person_dist |-> sh[1],
      shoulder_width |-> sh[2]] : s \in sensors, sh \in shapes}

---------------------------------------------------------------------------
\* Spec: the dashboard from construction, the field draws varied

TickTilt == Tilt({AngleScale \div 2}, MaxTicks)
TickWalk == Walk({Down, Zig}, SpikeDrawsOn({0, 1}, {3}))
TickPerson == Person(PersonDrawsOn({1, 2}, {<<400, 15>>, <<1200, 25>>}))

Next == TickTilt \/ TickWalk \/ TickPerson \/ HandOff

Spec == Init /\ [][Next]_vars

---------------------------------------------------------------------------
\* SpecTilt: the dashboard from construction, the tilt draws varied, the
\* field draws calm (every step upward from 4000, no spike, no person)

MaxTiltTicks == 20

TiltTilt == Tilt(TiltSteps, MaxTiltTicks)
TiltWalk == Walk({Up}, SpikeDrawsOn({}, {}))
TiltPerson == Person({NoPerson})

NextTilt == TiltTilt \/ TiltWalk \/ TiltPerson \/ HandOff

SpecTilt == Init /\ [][NextTilt]_vars

---------------------------------------------------------------------------
\* SpecStatus: the dashboard from construction, run long enough for the tilt
\* to pass 15 degrees while sensor 0 sees spikes and persons

MaxStatusTicks == 11

StatusTilt == Tilt({-2 * AngleScale, 3 * (AngleScale \div 2)}, MaxStatusTicks)
StatusWalk == Walk({Up}, SpikeDrawsOn({0}, {3}))
StatusPerson == Person(PersonDrawsOn({0}, {<<400, 15>>}))

NextStatus == StatusTilt \/ StatusWalk \/ StatusPerson \/ HandOff

SpecStatus == Init /\ [][NextStatus]_vars

---------------------------------------------------------------------------
\* SpecInject: simulate_person_obstacle called directly, between ticks, with
\* arguments of every kind

InjectCall ==
    /\ pc = "tilt"
    /\ \E s \in {-6, -1, 0, 1, 5}, c \in {400}, w \in {-20, 0, 15} :
          LET outcome == PersonOutcome(s, w)
          IN  /\ call' = [outcome |-> outcome, sensor_index |-> s,
                          distance_to_person |-> c, shoulder_width |-> w,
                          before |-> Field]
              /\ heap' = IF outcome = "returned"
                         THEN simulate_person_obstacle(heap, s, c, w)
                         ELSE heap
    /\ UNCHANGED << last_sim_angle, angle_change, indicator_angle, widget_ref,
                    status, pc, tick, before_walk, after_walk, person, handed,
                    probe, bands >>

NextInject == InjectCall

SpecInject == Init /\ [][NextInject]_vars

---------------------------------------------------------------------------
\* SpecClassify: the classifiers applied to sampled arguments

DistSamples == {0, 50, 299, 300, 301, 599, 600, 999, 1000, 1999, 2000, 4000, 4500}
AngleSamples == {0, 4999, 5000, -4999, -5000, 14999, 15000, -14999, -15000,
                 15001, 29999, -29999}

InitClassify ==
    /\ InitDashboard
    /\ probe \in [d1 : DistSamples, d2 : DistSamples, a : AngleSamples]
    /\ bands = NoBands

\* HeatmapWidget.paintEvent / ObstacleColumnWidget.paintEvent: a colour per cell
ClassifyDistance ==
    /\ ~bands.dist_done
    /\ bands' = [bands EXCEPT !.dist_done = TRUE,
                              !.heat1 = HeatmapColor(probe.d1),
                              !.col1 = ColumnColor(probe.d1),
                              !.heat2 = HeatmapColor(probe.d2),
                              !.col2 = ColumnColor(probe.d2)]
    /\ UNCHANGED << last_sim_angle, angle_change, indicator_angle, heap, widget_ref,
                    status, pc, tick, before_walk, after_walk, person, handed,
                    call, probe >>

\* TiltIndicatorWidget.paintEvent: the bubble colour, for _angle = a and = -a
ClassifyTilt ==
    /\ ~bands.tilt_done
    /\ bands' = [bands EXCEPT !.tilt_done = TRUE,
                              !.bubble = BubbleColor(probe.a),
                              !.bubble_neg = BubbleColor(-probe.a)]
    /\ UNCHANGED << last_sim_angle, angle_change, indicator_angle, heap, widget_ref,
                    status, pc, tick, before_walk, after_walk, person, handed,
                    call, probe >>

NextClassify == ClassifyDistance \/ ClassifyTilt

SpecClassify == InitClassify /\ [][NextClassify]_vars

---------------------------------------------------------------------------
\* Properties

Severity(color) ==
    CASE color = "CRITICAL" -> 4 [] color = "WARNING" -> 3 [] color = "CAUTION" -> 2
      [] color = "NORMAL" -> 1 [] color = "SAFE" -> 0

\* the cells a spike reassigned in this tick's loop: a per-pixel step moves a
\* cell by at most 50, a spike by at least 500
SpikedCells ==
    {c \in Sensors \X Pixels :
        Abs(after_walk[c[1]][c[2]] - before_walk[c[1]][c[2]]) > 50}

TickDone == pc = "tilt" /\ tick >= 1
AfterPerson == pc \in {"handoff", "tilt"} /\ person.fired

\* C1 (SpecStatus): once a tick is complete the status is OBSTACLE exactly
\* when the field minimum is below 300, TILT exactly when the minimum is at
\* least 300 and |angle| > 15 degrees, OK otherwise; it is a function of this
\* tick's angle and minimum alone.
C1_StatusPriority ==
    TickDone =>
        LET m == MinOf(AllDistances)
            tilted == Abs(last_sim_angle) > 15 * AngleScale
        IN  /\ status \in {"OBSTACLE", "TILT", "OK"}
            /\ (status = "OBSTACLE") <=> (m < 300)
            /\ (status = "TILT") <=> (m >= 300 /\ tilted)
            /\ (status = "OK") <=> (m >= 300 /\ ~tilted)

\* C1 witness: a complete tick with an obstacle under 300 and a tilt over 15
\* degrees, and the obstacle wins.
C1_Witness ==
    /\ TickDone
    /\ MinOf(AllDistances) < 300
    /\ Abs(last_sim_angle) > 15 * AngleScale
    /\ status = "OBSTACLE"

\* C2 (Spec): at every instant every row has exactly 8 cells and every cell
\* of the 5 rows lies in [50, 4000].
C2_ObstacleClamp ==
    /\ DOMAIN Field = 0 .. 4
    /\ \A i \in DOMAIN Field :
          /\ DOMAIN heap[i] = 0 .. 7
          /\ \A j \in DOMAIN heap[i] : heap[i][j] >= 50 /\ heap[i][j] <= 4000

\* C2 witness: the loop has just run, a cell that stood at 50 was stepped
\* down and held at 50, and a cell that stood at 4000 was stepped up and
\* held at 4000.
C2_Witness ==
    /\ pc = "person"
    /\ \E c \in Sensors \X Pixels :
          before_walk[c[1]][c[2]] = 50 /\ after_walk[c[1]][c[2]] = 50
    /\ \E c \in Sensors \X Pixels :
          before_walk[c[1]][c[2]] = 4000 /\ after_walk[c[1]][c[2]] = 4000

\* C3 (SpecTilt): from angle 0 the stored simulated angle stays strictly
\* inside (-30, 30) degrees.
C3_AngleContained ==
    /\ last_sim_angle > -30 * AngleScale
    /\ last_sim_angle < 30 * AngleScale

\* C3 witness: the tilt step has just been reflected (the stepped angle,
\* stored angle plus twice the draw, was at or beyond 30 degrees).
C3_Witness ==
    /\ pc = "walk"
    /\ Abs(last_sim_angle + 2 * angle_change) >= 30 * AngleScale

\* C4 (SpecClassify): every distance gets exactly the band of the table
\* (< 300 CRITICAL, < 600 WARNING, < 1000 CAUTION, < 2000 NORMAL, else SAFE),
\* a larger distance never gets a more severe band, and the heatmap and the
\* column classifier agree.
C4_DistanceBands ==
    bands.dist_done =>
        /\ \A d \in {<<probe.d1, bands.heat1>>, <<probe.d2, bands.heat2>>} :
              /\ (d[1] < 300) <=> (d[2] = "CRITICAL")
              /\ (d[1] >= 300 /\ d[1] < 600) <=> (d[2] = "WARNING")
              /\ (d[1] >= 600 /\ d[1] < 1000) <=> (d[2] = "CAUTION")
              /\ (d[1] >= 1000 /\ d[1] < 2000) <=> (d[2] = "NORMAL")
              /\ (d[1] >= 2000) <=> (d[2] = "SAFE")
        /\ (probe.d1 <= probe.d2) => (Severity(bands.heat2) <= Severity(bands.heat1))
        /\ bands.col1 = bands.heat1
        /\ bands.col2 = bands.heat2

\* C4 witness: the two distances straddle the 300 boundary and were classified.
C4_Witness ==
    /\ bands.dist_done
    /\ probe.d1 = 299
    /\ probe.d2 = 300
    /\ bands.col1 = "CRITICAL"
    /\ bands.col2 = "WARNING"

\* C5 (SpecClassify): the bubble band is NORMAL for |a| < 5, CAUTION for
\* 5 <= |a| < 15, CRITICAL for |a| >= 15 degrees, and the same for a and -a.
C5_TiltBands ==
    bands.tilt_done =>
        /\ (Abs(probe.a) < 5 * AngleScale) <=> (bands.bubble = "NORMAL")
        /\ (Abs(probe.a) >= 5 * AngleScale /\ Abs(probe.a) < 15 * AngleScale)
              <=> (bands.bubble = "CAUTION")
        /\ (Abs(probe.a) >= 15 * AngleScale) <=> (bands.bubble = "CRITICAL")
        /\ bands.bubble_neg = bands.bubble

\* C5 witness: the angle is exactly -15 degrees and was painted CRITICAL.
C5_Witness ==
    /\ bands.tilt_done
    /\ probe.a = -15 * AngleScale
    /\ bands.bubble = "CRITICAL"

\* C6 (SpecInject), as claimed: a call with a spread <= 0 or a sensor index
\* outside [0, 5) fails and leaves all 40 cells as they were.
C6_RejectsBadArguments ==
    (/\ call.outcome # "none"
     /\ (call.shoulder_width <= 0 \/ call.sensor_index \notin 0 .. 4))
        => /\ call.outcome \in {"ZeroDivisionError", "IndexError"}
           /\ Field = call.before

\* C7 (Spec), as claimed: once a widget has been handed its readings, what it
\* holds is what it was handed, until the next hand-off.
C7_SnapshotIsolation ==
    tick >= 1 => \A i \in Sensors : heap[widget_ref[i]] = handed[i]

\* C8 (Spec), as claimed: at most one of the 40 cells is reassigned by a
\* spike in one tick.
C8_OneSpikePerTick == Cardinality(SpikedCells) <= 1

\* C8 (Spec), amended: at most one cell of each sensor is reassigned by a
\* spike in one tick (one draw per sensor), so at most 5 cells in all.
C8_OneSpikePerSensor ==
    /\ \A i \in Sensors : Cardinality({c \in SpikedCells : c[1] = i}) <= 1
    /\ Cardinality(SpikedCells) <= 5

\* C8 witness: the loop has just run and cells of two different sensors were
\* both spiked in it.
C8_Witness ==
    /\ pc = "person"
    /\ \E c1, c2 \in SpikedCells : c1[1] # c2[1]

\* C9 (Spec): when a person event fired for sensor s, from the end of the
\* person stretch to the end of the tick the 8 cells of s hold exactly the
\* profile of the drawn centre and width, and the other four rows are what
\* the loop left.
C9_PersonLastAndFrame ==
    AfterPerson =>
        /\ \A j \in Pixels :
              heap[person.target_sensor][j]
                 = PersonDist(j, person.person_dist, person.shoulder_width)
        /\ \A i \in Sensors \ {person.target_sensor} : heap[i] = after_walk[i]

\* C9 witness: a person (400 mm, 1.5 px) fired on sensor 1 after the loop had
\* spiked both sensor 0 and sensor 1; sensor 1 holds the profile, sensor 0
\* keeps its spike.
C9_Witness ==
    /\ pc = "handoff"
    /\ person.fired
    /\ person.target_sensor = 1
    /\ after_walk[1][3] < 300
    /\ after_walk[0][3] < 300
    /\ heap[0][3] < 300
    /\ heap[1][0] = 3763 /\ heap[1][3] = 594 /\ heap[1][4] = 594 /\ heap[1][7] = 3763

\* C10 (Spec): when a person event fired, every cell of the targeted sensor
\* lies between the drawn centre distance and 4000, so none is below 300.
C10_PersonNeverBelowCentre ==
    AfterPerson =>
        \A j \in Pixels :
            /\ heap[person.target_sensor][j] >= person.person_dist
            /\ heap[person.target_sensor][j] <= 4000
            /\ heap[person.target_sensor][j] >= 300

\* C10 witness: the loop left a cell below 300 on the targeted sensor, the
\* person event overwrote it, and the tick ended without OBSTACLE.
C10_Witness ==
    /\ TickDone
    /\ person.fired
    /\ \E j \in Pixels : after_walk[person.target_sensor][j] < 300
    /\ status = "OK"

====
